---- MODULE Spec2Model ----
(***************************************************************************)
(* Monte Carlo Tree Search (package mcts): the Search call, its tree of    *)
(* nodes, the boards those nodes point to, and the Evaluator / Expander    *)
(* collaborators of the package's example.                                 *)
(*                                                                         *)
(* Boards are Go slices of slices ([][]int): a board is the address of an  *)
(* outer array (boards[a], a sequence of row addresses) and every row is   *)
(* an address into rows (a sequence of cells).  Two boards alias when they *)
(* share the outer array or a row.                                         *)
(***************************************************************************)
EXTENDS Integers, Sequences, FiniteSets, TLC

(* ------------------------------ bounds --------------------------------- *)
\* boards of the model have MaxCells rows of one cell
MaxCells == 2
\* the clock has passed every duration once MaxSteps iterations have run
MaxSteps == 3

(* ------------------------------ state ---------------------------------- *)
VARIABLES
    pc,          \* position of the Search call
    boards,      \* heap of outer arrays: address -> sequence of row addresses
    rows,        \* heap of rows: address -> sequence of cells
    callerBoard, \* address of the board the caller owns and passes to Search
    entryBoard,  \* value of the caller's board when Search was entered
    side,        \* Search argument
    duration,    \* Search argument
    maxDepth,    \* Search argument
    maxIters,    \* Search argument
    elapsed,     \* last reading of time.Since(t0)
    iter,        \* Search local
    nodes,       \* arena of tree nodes; node 1 is the root, 0 is nil
    node,        \* Search local: the node of the current iteration
    moves,       \* expand: the moves of ex.Expand not yet turned into children
    preKids,     \* expand: number of children the node had when expand began
    scratch,     \* randomPlayOut local: address of the private board, 0 if none
    currentTurn, \* randomPlayOut local
    applyArg,    \* address of the board handed to ApplyMove by the last step, or 0
    result       \* what the Search call returned, or how it failed

vars == <<pc, boards, rows, callerBoard, entryBoard, side, duration, maxDepth,
          maxIters, elapsed, iter, nodes, node, moves, preKids, scratch,
          currentTurn, applyArg, result>>

Sides == {1, 2}
\* Search only compares time.Since(t0) with duration: a duration is negative,
\* zero or positive, and a clock reading is 0 (the start) or 1 (the least
\* reading that is not under a positive duration)
Durations == {-1, 0, 1}
Readings == {0, 1}
\* maxDepth: no tree is deeper than MaxCells, so MaxCells and more act as 0
Depths == -1 .. MaxCells - 1
\* maxIters: the clock ends the loop by MaxSteps, so MaxSteps and more act as 0
Iters == -1 .. MaxSteps - 1
NoMove == [i |-> 0, j |-> 0, side |-> 0, eval |-> 0]
NoResult == [kind |-> "none", move |-> NoMove, visits |-> 0]

(* ------------------------------ boards --------------------------------- *)
\* the shapes (rows, columns) a board may have
Shapes == {<<MaxCells, 1>>}

\* all board values of a shape: 0 is an empty cell, a side occupies otherwise
BoardValues(s) == [1 .. s[1] -> [1 .. s[2] -> 0 .. 2]]

\* the value (matrix) held by the board at address b
BoardVal(bs, rs, b) == [k \in 1 .. Len(bs[b]) |-> rs[bs[b][k]]]

\* two board addresses share memory: same outer array or a common row
Aliased(bs, a, b) ==
    \/ a = b
    \/ \E k \in 1 .. Len(bs[a]) : \E l \in 1 .. Len(bs[b]) : bs[a][k] = bs[b][l]

\* a mutant of copyBoard: the slice header is returned as it is
copyBoardAlias(bs, rs, b) == [boards |-> bs, rows |-> rs, addr |-> b]

\* a mutant of copyBoard: a new outer array over the same rows
copyBoardShallow(bs, rs, b) ==
    [boards |-> Append(bs, bs[b]), rows |-> rs, addr |-> Len(bs) + 1]

\* copyBoard: a new outer array and a new row for every row, cell by cell
copyBoard(bs, rs, b) ==
    LET n == Len(bs[b])
        newRows == [k \in 1 .. n |-> [j \in 1 .. Len(rs[bs[b][k]]) |-> rs[bs[b][k]][j]]]
        newOuter == [k \in 1 .. n |-> Len(rs) + k]
    IN  [boards |-> Append(bs, newOuter), rows |-> rs \o newRows, addr |-> Len(bs) + 1]

\* the addresses still referenced by the caller or by a tree node
LiveBoards(ns) == {callerBoard} \cup {ns[k].board : k \in DOMAIN ns}

\* the private board of a finished rollout is unreachable: the heap is cut
\* back to the boards and rows that are still referenced
Collect(bs, rs, ns) ==
    LET top == CHOOSE a \in LiveBoards(ns) : \A b \in LiveBoards(ns) : b <= a
        bs2 == SubSeq(bs, 1, top)
        used == UNION {{bs2[a][k] : k \in 1 .. Len(bs2[a])} : a \in 1 .. top}
        rtop == CHOOSE r \in used : \A q \in used : q <= r
    IN  [boards |-> bs2, rows |-> SubSeq(rs, 1, rtop)]

(* --------------------------- collaborators ----------------------------- *)
\* MoveEval.NextPlayer and MoveEval.PrevPlayer of the example
NextPlayer(s) == 3 - s
PrevPlayer(s) == 3 - s

\* the evaluation a move on cell (i, j) reports: -1, 0 or 1 by position
EvalAt(i, j) == ((i + j) % 3) - 1

\* the cells of a board value in row-major order
CellSeq(v) ==
    LET c == Len(v[1])
    IN  [k \in 1 .. Len(v) * c |-> <<((k - 1) \div c) + 1, ((k - 1) % c) + 1>>]

\* MoveGen.Expand: one move per empty cell, in row-major order
ExpandMoves(v, s) ==
    LET cs == CellSeq(v)
        all == [k \in DOMAIN cs |->
                  [i |-> cs[k][1], j |-> cs[k][2], side |-> s,
                   eval |-> EvalAt(cs[k][1], cs[k][2])]]
    IN  SelectSeq(all, LAMBDA m : v[m.i][m.j] = 0)

\* MoveEval.RandomMove: the moves the random source may pick; empty = nil
RandomMoves(v, s) ==
    {[i |-> i, j |-> j, side |-> s, eval |-> 0] :
        <<i, j>> \in {c \in (1 .. Len(v)) \X (1 .. Len(v[1])) : v[c[1]][c[2]] = 0}}

\* what the game engine's Evaluate may answer for a move: an error, no end
\* yet, a draw, or a win of player 1 (who is the mover on some turns and the
\* mover's opponent on the others)
Outcomes ==
    {[gameOver |-> FALSE, winner |-> 0, err |-> TRUE],
     [gameOver |-> FALSE, winner |-> 0, err |-> FALSE]}
    \cup {[gameOver |-> TRUE, winner |-> w, err |-> FALSE] : w \in 0 .. 1}

\* MoveEval.ApplyMove: the rows after the call on board b with answer o
ApplyMove(bs, rs, b, turn, m, o) ==
    IF o.gameOver /\ o.winner # 0 /\ o.winner # turn
    THEN rs
    ELSE [rs EXCEPT ![bs[b][m.i]][m.j] = turn]

(* ------------------------------ the tree ------------------------------- *)
\* treeNode; the field level is never read or written and is left out
NewNode(p, s, m, b, d) ==
    [parent |-> p, children |-> <<>>, side |-> s, move |-> m, winner |-> 0,
     winScore |-> 0, visits |-> 0, gameOver |-> FALSE, board |-> b, depth |-> d]

\* float64 values of the UCB formula are kept in millionths; nan marks NaN
UcbScale == 1000000

\* ExploreTable[P][v] = floor(UcbScale * Sqrt2 * Sqrt(Log(P) / v)), P, v in 1 .. 16
ExploreTable ==
    <<
      <<0, 0, 0, 0, 0, 0, 0, 0, 0, 0, 0, 0, 0, 0, 0, 0>>,
      <<1177410, 832554, 679777, 588705, 526553, 480675, 445019, 416277, 392470, 372329, 355002, 339888, 326554, 314676, 304005, 294352>>,
      <<1482303, 1048147, 855808, 741151, 662906, 605147, 560258, 524073, 494101, 468745, 446931, 427904, 411117, 396162, 382729, 370575>>,
      <<1665109, 1177410, 961351, 832554, 744659, 679777, 629352, 588705, 555036, 526553, 502049, 480675, 461818, 445019, 429929, 416277>>,
      <<1794122, 1268636, 1035837, 897061, 802356, 732447, 678114, 634318, 598040, 567351, 540948, 517918, 497600, 479499, 463240, 448530>>,
      <<1893018, 1338566, 1092934, 946509, 846583, 772821, 715493, 669283, 631006, 598625, 570766, 546467, 525028, 505930, 488775, 473254>>,
      <<1972769, 1394958, 1138979, 986384, 882249, 805379, 745636, 697479, 657589, 623844, 594812, 569489, 547147, 527244, 509366, 493192>>,
      <<2039333, 1442026, 1177410, 1019666, 912017, 832554, 770795, 721013, 679777, 644894, 614882, 588705, 565609, 545034, 526553, 509833>>,
      <<2096294, 1482303, 1210295, 1048147, 937491, 855808, 792324, 741151, 698764, 662906, 632056, 605147, 581407, 560258, 541260, 524073>>,
      <<2145966, 1517427, 1238974, 1072983, 959705, 876086, 811098, 758713, 715322, 678614, 647033, 619487, 595183, 573533, 554086, 536491>>,
      <<2189929, 1548513, 1264356, 1094964, 979366, 894034, 827715, 774256, 729976, 692516, 660288, 632178, 607377, 585283, 565437, 547482>>,
      <<2229307, 1576358, 1287091, 1114653, 996976, 910111, 842599, 788179, 743102, 704969, 672161, 643545, 618298, 595807, 575604, 557326>>,
      <<2264927, 1601545, 1307656, 1132463, 1012906, 924652, 856062, 800772, 754975, 716233, 682901, 653828, 628177, 605327, 584801, 566231>>,
      <<2297414, 1624517, 1326413, 1148707, 1027435, 937915, 868341, 812258, 765804, 726506, 692696, 663206, 637188, 614009, 593189, 574353>>,
      <<2327251, 1645615, 1343639, 1163625, 1040778, 950096, 879618, 822807, 775750, 735941, 701692, 671819, 645463, 621984, 600893, 581812>>,
      <<2354820, 1665109, 1359555, 1177410, 1053107, 961351, 890038, 832554, 784940, 744659, 710004, 679777, 653109, 629352, 608011, 588705>>
    >>

\* (winScore / visits) + Sqrt2 * Sqrt(Log(parentVisits) / visits) for visits > 0;
\* Log(0) is -Inf, -Inf / visits is -Inf, Sqrt(-Inf) is NaN and NaN + x is NaN
UcbValue(w, v, p) ==
    IF p = 0
    THEN [nan |-> TRUE, val |-> 0]
    ELSE [nan |-> FALSE, val |-> ((w * UcbScale) \div v) + ExploreTable[p][v]]

\* the float64 comparison a > b: false when either side is NaN
FloatGt(a, b) == ~a.nan /\ ~b.nan /\ a.val > b.val

\* the loop of highestUCBChild from index i on, res and maxVal being its locals
RECURSIVE UcbLoop(_, _, _, _, _)
UcbLoop(ns, n, i, res, maxVal) ==
    IF i > Len(ns[n].children)
    THEN res
    ELSE LET c == ns[n].children[i]
         IN  IF ns[c].visits = 0
             THEN c
             ELSE LET val == UcbValue(ns[c].winScore, ns[c].visits, ns[n].visits)
                  IN  IF FloatGt(val, maxVal)
                      THEN UcbLoop(ns, n, i + 1, c, val)
                      ELSE UcbLoop(ns, n, i + 1, res, maxVal)

\* a mutant of highestUCBChild: no short circuit for an unvisited child other
\* than the first
RECURSIVE UcbLoopNoZero(_, _, _, _, _)
UcbLoopNoZero(ns, n, i, res, maxVal) ==
    IF i > Len(ns[n].children)
    THEN res
    ELSE LET c == ns[n].children[i]
             val == IF ns[c].visits = 0
                    THEN [nan |-> TRUE, val |-> 0]
                    ELSE UcbValue(ns[c].winScore, ns[c].visits, ns[n].visits)
         IN  IF FloatGt(val, maxVal)
             THEN UcbLoopNoZero(ns, n, i + 1, c, val)
             ELSE UcbLoopNoZero(ns, n, i + 1, res, maxVal)

highestUCBChildNoZero(ns, n) ==
    LET c == ns[n].children[1]
    IN  IF ns[c].visits = 0
        THEN c
        ELSE UcbLoopNoZero(ns, n, 2, c,
                           UcbValue(ns[c].winScore, ns[c].visits, ns[n].visits))

\* highestUCBChild
highestUCBChild(ns, n) ==
    LET c == ns[n].children[1]
    IN  IF ns[c].visits = 0
        THEN c
        ELSE UcbLoop(ns, n, 2, c, UcbValue(ns[c].winScore, ns[c].visits, ns[n].visits))

\* the (visits, parentVisits) pairs highestUCBChild(n) puts into the formula:
\* those of the children before the first child without visits
UcbCalls(ns, n) ==
    LET kids == ns[n].children
        zeros == {i \in DOMAIN kids : ns[kids[i]].visits = 0}
        last == IF zeros = {}
                THEN Len(kids)
                ELSE (CHOOSE i \in zeros : \A j \in zeros : i <= j) - 1
    IN  {<<ns[kids[i]].visits, ns[n].visits>> : i \in 1 .. last}

\* the loop of promisingNode
RECURSIVE Descend(_, _)
Descend(ns, res) ==
    IF Len(ns[res].children) > 0 THEN Descend(ns, highestUCBChild(ns, res)) ELSE res

\* the pairs the formula is evaluated with in the loop of promisingNode
RECURSIVE DescendCalls(_, _)
DescendCalls(ns, res) ==
    IF Len(ns[res].children) > 0
    THEN UcbCalls(ns, res) \cup DescendCalls(ns, highestUCBChild(ns, res))
    ELSE {}

\* a mutant of promisingNode: one step down instead of a loop
promisingNodeOneStep(ns, n) ==
    IF ns[n].gameOver \/ Len(ns[n].children) = 0 THEN n ELSE highestUCBChild(ns, n)

\* promisingNode
promisingNode(ns, n) == IF ns[n].gameOver THEN n ELSE Descend(ns, n)

\* firstChildOrItself
firstChildOrItself(ns, n) ==
    IF Len(ns[n].children) = 0 \/ ns[n].gameOver THEN n ELSE ns[n].children[1]

\* the loop of bestChild from index i on, res being the best child so far
RECURSIVE BestLoop(_, _, _, _)
BestLoop(ns, n, i, res) ==
    IF i > Len(ns[n].children)
    THEN res
    ELSE LET ch == ns[n].children[i]
         IN  IF ns[ch].visits > ns[res].visits
             THEN BestLoop(ns, n, i + 1, ch)
             ELSE BestLoop(ns, n, i + 1, res)

\* a mutant of bestChild: a later child wins a tie
RECURSIVE BestLoopLast(_, _, _, _)
BestLoopLast(ns, n, i, res) ==
    IF i > Len(ns[n].children)
    THEN res
    ELSE LET ch == ns[n].children[i]
         IN  IF ns[ch].visits >= ns[res].visits
             THEN BestLoopLast(ns, n, i + 1, ch)
             ELSE BestLoopLast(ns, n, i + 1, res)

bestChildLast(ns, n) == BestLoopLast(ns, n, 2, ns[n].children[1])

\* bestChild, for a node with children (it panics on a node without)
bestChild(ns, n) == BestLoop(ns, n, 2, ns[n].children[1])

\* a mutant of the statistics loop of expand: it stops below the root
RECURSIVE SeedUpBelowRoot(_, _, _, _)
SeedUpBelowRoot(ns, k, s, e) ==
    IF k = 0 \/ ns[k].parent = 0
    THEN ns
    ELSE SeedUpBelowRoot([ns EXCEPT ![k].visits = @ + 1,
                                    ![k].winScore = IF ns[k].side = s THEN @ + e ELSE @ - e],
                         ns[k].parent, s, e)

\* a mutant of the statistics loop of expand: only the new child is counted
SeedUpChildOnly(ns, k, s, e) ==
    [ns EXCEPT ![k].visits = @ + 1,
               ![k].winScore = IF ns[k].side = s THEN @ + e ELSE @ - e]

\* the statistics loop of expand: from node k up to the root, for a move of
\* evaluation e made by side s
RECURSIVE SeedUp(_, _, _, _)
SeedUp(ns, k, s, e) ==
    IF k = 0
    THEN ns
    ELSE SeedUp([ns EXCEPT ![k].visits = @ + 1,
                           ![k].winScore = IF ns[k].side = s THEN @ + e ELSE @ - e],
                ns[k].parent, s, e)

\* the loop of backpropagate from node k up, winner being its local
RECURSIVE BackLoop(_, _, _)
BackLoop(ns, k, winner) ==
    IF k = 0
    THEN ns
    ELSE BackLoop([ns EXCEPT ![k].visits = @ + 1,
                             ![k].winScore = IF winner = 0 THEN @
                                             ELSE IF winner = ns[k].side THEN @ + 1
                                             ELSE @ - 1],
                  ns[k].parent, winner)

\* a mutant of backpropagate: the loop stops below the root
RECURSIVE BackLoopBelowRoot(_, _, _)
BackLoopBelowRoot(ns, k, winner) ==
    IF k = 0 \/ ns[k].parent = 0
    THEN ns
    ELSE BackLoopBelowRoot([ns EXCEPT ![k].visits = @ + 1,
                                      ![k].winScore = IF winner = 0 THEN @
                                                      ELSE IF winner = ns[k].side THEN @ + 1
                                                      ELSE @ - 1],
                           ns[k].parent, winner)

backpropagateBelowRoot(ns, n) == BackLoopBelowRoot(ns, n, ns[n].winner)

\* a mutant of backpropagate: no test for a draw, so that a draw (a winner
\* that is no node's side) counts as a loss everywhere
backpropagateDrawLoses(ns, n) ==
    BackLoop(ns, n, IF ns[n].winner = 0 THEN 3 ELSE ns[n].winner)

\* backpropagate
backpropagate(ns, n) == BackLoop(ns, n, ns[n].winner)

\* a mutant of expand: no early return for a terminal node
expandReturnsDepthOnly(n, md) == md > 0 /\ n.depth >= md

\* a mutant of expand: the depth test lets a node of depth maxDepth through
expandReturnsDeeper(n, md) == n.gameOver \/ (md > 0 /\ n.depth > md)

\* the two early returns of expand
expandReturns(n, md) == n.gameOver \/ (md > 0 /\ n.depth >= md)

\* a mutant of Search's loop condition: no first pass when the time is up
loopRunsTimeOnly(it, e, d) == e < d

\* a mutant of Search's loop condition: one more pass when the clock reads
\* exactly duration
loopRunsInclusive(it, e, d) == it = 0 \/ e =< d

\* the loop condition of Search: e is the clock reading
loopRuns(it, e, d) == it = 0 \/ e < d

\* a mutant of the break of Search's loop: one iteration too many
loopBreaksLate(it, mi) == mi > 0 /\ it > mi

\* the break of Search's loop
loopBreaks(it, mi) == mi > 0 /\ it >= mi

(* ------------------------------ actions -------------------------------- *)
Init ==
    /\ pc = "idle"
    /\ \E s \in Shapes : \E v \in BoardValues(s) :
          /\ boards = <<[k \in 1 .. s[1] |-> k]>>
          /\ rows = v
          /\ entryBoard = v
    /\ callerBoard = 1
    /\ side = 1 /\ duration = 0 /\ maxDepth = 0 /\ maxIters = 0
    /\ elapsed = 0 /\ iter = 0
    /\ nodes = <<>> /\ node = 0
    /\ moves = <<>> /\ preKids = 0
    /\ scratch = 0 /\ currentTurn = 0 /\ applyArg = 0
    /\ result = NoResult

\* Search, up to the loop: t0 is read and the root is built
Start ==
    /\ pc = "idle"
    /\ \E s \in Sides, d \in Durations, md \in Depths, mi \in Iters :
          /\ side' = s /\ duration' = d /\ maxDepth' = md /\ maxIters' = mi
          /\ nodes' = <<NewNode(0, PrevPlayer(s), NoMove, callerBoard, 0)>>
    /\ entryBoard' = BoardVal(boards, rows, callerBoard)
    /\ elapsed' = 0 /\ iter' = 0 /\ node' = 0
    /\ pc' = "loop"
    /\ UNCHANGED <<boards, rows, callerBoard, moves, preKids, scratch,
                   currentTurn, applyArg, result>>

\* the head of Search's loop; time.Since(t0) is read only when iter # 0
LoopHead ==
    /\ pc = "loop"
    /\ \E e \in {r \in Readings : r >= elapsed} :
          /\ iter = 0 => e = elapsed
          /\ iter >= MaxSteps => e >= duration
          /\ elapsed' = e
          /\ IF loopRuns(iter, e, duration) /\ ~loopBreaks(iter, maxIters)
             THEN iter' = iter + 1 /\ pc' = "select"
             ELSE iter' = iter /\ pc' = "decide"
    /\ applyArg' = 0
    /\ UNCHANGED <<boards, rows, callerBoard, entryBoard, side, duration, maxDepth,
                   maxIters, nodes, node, moves, preKids, scratch, currentTurn,
                   result>>

\* node = promisingNode(root)
Select ==
    /\ pc = "select"
    /\ node' = promisingNode(nodes, 1)
    /\ pc' = "expand"
    /\ UNCHANGED <<boards, rows, callerBoard, entryBoard, side, duration, maxDepth,
                   maxIters, elapsed, iter, nodes, moves, preKids, scratch,
                   currentTurn, applyArg, result>>

\* expand, up to its loop: the early returns and the call of ex.Expand
ExpandBegin(here, loop, to) ==
    /\ pc = here
    /\ preKids' = Len(nodes[node].children)
    /\ IF expandReturns(nodes[node], maxDepth)
       THEN moves' = <<>> /\ pc' = to
       ELSE /\ moves' = ExpandMoves(BoardVal(boards, rows, nodes[node].board),
                                    NextPlayer(nodes[node].side))
            /\ pc' = IF moves' = <<>> THEN to ELSE loop
    /\ UNCHANGED <<boards, rows, callerBoard, entryBoard, side, duration, maxDepth,
                   maxIters, elapsed, iter, nodes, node, scratch, currentTurn,
                   applyArg, result>>

\* a mutant of expand's loop: the error of ApplyMove is looked at only after
\* the statistics loop
ExpandChildLateCheck(loop, to) ==
    /\ pc = loop
    /\ \E o \in Outcomes :
          LET m == Head(moves)
              nextPlayer == NextPlayer(nodes[node].side)
              cp == copyBoard(boards, rows, nodes[node].board)
              child == Len(nodes) + 1
              attached == Append([nodes EXCEPT ![node].children = Append(@, child)],
                                 NewNode(node, nextPlayer, m, cp.addr,
                                         nodes[node].depth + 1))
          IN  /\ boards' = cp.boards
              /\ rows' = ApplyMove(cp.boards, cp.rows, cp.addr, nextPlayer, m, o)
              /\ applyArg' = cp.addr
              /\ nodes' = SeedUp(IF o.gameOver
                                 THEN [attached EXCEPT ![child].gameOver = TRUE,
                                                       ![child].winner = o.winner]
                                 ELSE attached,
                                 child, nextPlayer, m.eval)
              /\ IF o.err
                 THEN /\ moves' = moves
                      /\ result' = [kind |-> "panic", move |-> NoMove, visits |-> 0]
                      /\ pc' = "failed"
                 ELSE /\ moves' = Tail(moves)
                      /\ result' = result
                      /\ pc' = IF Tail(moves) = <<>> THEN to ELSE loop
    /\ UNCHANGED <<callerBoard, entryBoard, side, duration, maxDepth, maxIters,
                   elapsed, iter, node, preKids, scratch, currentTurn>>

\* one pass of expand's loop, for the move m = Head(moves)
ExpandChild(loop, to) ==
    /\ pc = loop
    /\ \E o \in Outcomes :
          LET m == Head(moves)
              nextPlayer == NextPlayer(nodes[node].side)
              cp == copyBoard(boards, rows, nodes[node].board)
              child == Len(nodes) + 1
              attached == Append([nodes EXCEPT ![node].children = Append(@, child)],
                                 NewNode(node, nextPlayer, m, cp.addr,
                                         nodes[node].depth + 1))
              marked == IF o.gameOver
                        THEN [attached EXCEPT ![child].gameOver = TRUE,
                                              ![child].winner = o.winner]
                        ELSE attached
          IN  /\ boards' = cp.boards
              /\ rows' = ApplyMove(cp.boards, cp.rows, cp.addr, nextPlayer, m, o)
              /\ applyArg' = cp.addr
              /\ IF o.err
                 THEN /\ nodes' = attached
                      /\ moves' = moves
                      /\ result' = [kind |-> "panic", move |-> NoMove, visits |-> 0]
                      /\ pc' = "failed"
                 ELSE /\ nodes' = SeedUp(marked, child, nextPlayer, m.eval)
                      /\ moves' = Tail(moves)
                      /\ result' = result
                      /\ pc' = IF Tail(moves) = <<>> THEN to ELSE loop
    /\ UNCHANGED <<callerBoard, entryBoard, side, duration, maxDepth, maxIters,
                   elapsed, iter, node, preKids, scratch, currentTurn>>

\* node = firstChildOrItself(node)
FirstChild ==
    /\ pc = "first"
    /\ node' = firstChildOrItself(nodes, node)
    /\ pc' = "rollout"
    /\ applyArg' = 0
    /\ UNCHANGED <<boards, rows, callerBoard, entryBoard, side, duration, maxDepth,
                   maxIters, elapsed, iter, nodes, moves, preKids, scratch,
                   currentTurn, result>>

\* randomPlayOut, up to its loop: the early return and the private board
RolloutBegin ==
    /\ pc = "rollout"
    /\ IF nodes[node].gameOver
       THEN /\ pc' = "backprop"
            /\ UNCHANGED <<boards, rows, scratch, currentTurn>>
       ELSE LET cp == copyBoard(boards, rows, nodes[node].board)
            IN  /\ currentTurn' = NextPlayer(nodes[node].side)
                /\ boards' = cp.boards
                /\ rows' = cp.rows
                /\ scratch' = cp.addr
                /\ pc' = "rolloutLoop"
    /\ applyArg' = 0
    /\ UNCHANGED <<callerBoard, entryBoard, side, duration, maxDepth, maxIters,
                   elapsed, iter, nodes, node, moves, preKids, result>>

\* one pass of randomPlayOut's loop
RolloutStep ==
    /\ pc = "rolloutLoop"
    /\ LET v == BoardVal(boards, rows, scratch)
       IN  IF RandomMoves(v, currentTurn) = {}
           THEN /\ pc' = "backprop"
                /\ applyArg' = 0
                /\ UNCHANGED <<rows, nodes, currentTurn, result>>
           ELSE \E m \in RandomMoves(v, currentTurn), o \in Outcomes :
                   /\ rows' = ApplyMove(boards, rows, scratch, currentTurn, m, o)
                   /\ applyArg' = scratch
                   /\ IF o.err
                      THEN /\ pc' = "failed"
                           /\ result' = [kind |-> "panic", move |-> NoMove,
                                         visits |-> 0]
                           /\ UNCHANGED <<nodes, currentTurn>>
                      ELSE IF o.gameOver
                      THEN /\ nodes' = [nodes EXCEPT ![node].winner = o.winner]
                           /\ pc' = "backprop"
                           /\ UNCHANGED <<currentTurn, result>>
                      ELSE /\ currentTurn' = NextPlayer(currentTurn)
                           /\ pc' = "rolloutLoop"
                           /\ UNCHANGED <<nodes, result>>
    /\ UNCHANGED <<boards, callerBoard, entryBoard, side, duration, maxDepth,
                   maxIters, elapsed, iter, node, moves, preKids, scratch>>

\* backpropagate(node); the private board of the rollout is garbage by now
Backprop ==
    /\ pc = "backprop"
    /\ nodes' = backpropagate(nodes, node)
    /\ LET h == Collect(boards, rows, nodes)
       IN  boards' = h.boards /\ rows' = h.rows
    /\ scratch' = 0 /\ currentTurn' = 0 /\ applyArg' = 0
    /\ pc' = "loop"
    /\ UNCHANGED <<callerBoard, entryBoard, side, duration, maxDepth, maxIters,
                   elapsed, iter, node, moves, preKids, result>>

\* a mutant of the end of Search: a root without children yields no move
\* instead of a panic
DecideDefault ==
    /\ pc = "decide"
    /\ result' = [kind |-> "move",
                  move |-> IF Len(nodes[1].children) = 0
                           THEN NoMove
                           ELSE nodes[bestChild(nodes, 1)].move,
                  visits |-> nodes[1].visits]
    /\ pc' = "done"
    /\ UNCHANGED <<boards, rows, callerBoard, entryBoard, side, duration, maxDepth,
                   maxIters, elapsed, iter, nodes, node, moves, preKids, scratch,
                   currentTurn, applyArg>>

\* return bestChild(root).move, root.visits
Decide ==
    /\ pc = "decide"
    /\ IF Len(nodes[1].children) = 0
       THEN /\ result' = [kind |-> "panic", move |-> NoMove, visits |-> 0]
            /\ pc' = "failed"
       ELSE /\ result' = [kind |-> "move", move |-> nodes[bestChild(nodes, 1)].move,
                          visits |-> nodes[1].visits]
            /\ pc' = "done"
    /\ UNCHANGED <<boards, rows, callerBoard, entryBoard, side, duration, maxDepth,
                   maxIters, elapsed, iter, nodes, node, moves, preKids, scratch,
                   currentTurn, applyArg>>

Expand == ExpandBegin("expand", "expandLoop", "first")

ExpandNext == ExpandChild("expandLoop", "first")

Next ==
    \/ Start
    \/ LoopHead
    \/ Select
    \/ Expand
    \/ ExpandNext
    \/ FirstChild
    \/ RolloutBegin
    \/ RolloutStep
    \/ Backprop
    \/ Decide

Spec == Init /\ [][Next]_vars

\* the steps of a Search call once it has been made
Run ==
    \/ LoopHead
    \/ Select
    \/ Expand
    \/ ExpandNext
    \/ FirstChild
    \/ RolloutBegin
    \/ RolloutStep
    \/ Backprop
    \/ Decide

\* a Search call that has been made keeps running: nothing but the call
\* itself can hold it up (no locks, no channels, no cancellation)
SpecLive == Init /\ [][Next]_vars /\ WF_vars(Run)

(* ----------------------- expand applied to any node -------------------- *)
\* expand is a method of every node: here it is applied once, after the first
\* iteration of a Search, to an arbitrary node of the tree
ReExpand ==
    /\ pc = "loop"
    /\ iter = 1
    /\ \E n \in DOMAIN nodes : node' = n
    /\ pc' = "uexpand"
    /\ applyArg' = 0
    /\ UNCHANGED <<boards, rows, callerBoard, entryBoard, side, duration, maxDepth,
                   maxIters, elapsed, iter, nodes, moves, preKids, scratch,
                   currentTurn, result>>

ReExpandBegin == ExpandBegin("uexpand", "uexpandLoop", "stop")

ReExpandNext == ExpandChild("uexpandLoop", "stop")

NextExpand == Next \/ ReExpand \/ ReExpandBegin \/ ReExpandNext

SpecExpand == Init /\ [][NextExpand]_vars

(* ------------------- a caller that writes to its board ----------------- *)
\* the caller (another goroutine of it) stores once into a cell of its own
\* board while the Search call is between two iterations
CallerWrite ==
    /\ pc = "loop"
    /\ BoardVal(boards, rows, callerBoard) = entryBoard
    /\ \E i \in 1 .. Len(boards[callerBoard]) :
          \E j \in 1 .. Len(rows[boards[callerBoard][i]]) :
             \E v \in 0 .. 2 :
                /\ rows[boards[callerBoard][i]][j] # v
                /\ rows' = [rows EXCEPT ![boards[callerBoard][i]][j] = v]
    /\ applyArg' = 0
    /\ UNCHANGED <<pc, boards, callerBoard, entryBoard, side, duration, maxDepth,
                   maxIters, elapsed, iter, nodes, node, moves, preKids, scratch,
                   currentTurn, result>>

NextCaller == Next \/ CallerWrite

SpecCaller == Init /\ [][NextCaller]_vars

(* ---------------------- highestUCBChild on its own --------------------- *)
\* a parent (node 1) with k children whose statistics st[1] .. st[k] are free
UcbTree(pv, st) ==
    <<[NewNode(0, 2, NoMove, 1, 0) EXCEPT !.visits = pv,
                                         !.children = [c \in DOMAIN st |-> c + 1]]>>
    \o [c \in DOMAIN st |->
          [NewNode(1, 1, NoMove, 1, 1) EXCEPT !.visits = st[c][1],
                                             !.winScore = st[c][2]]]

InitUcb ==
    /\ pc = "ucb"
    /\ \E k \in 1 .. MaxCells + 1, pv \in 0 .. MaxSteps :
          \E st \in [1 .. k -> (0 .. MaxSteps) \X (-1 .. 1)] :
             nodes = UcbTree(pv, st)
    /\ boards = <<<<1>>>> /\ rows = <<<<0>>>> /\ entryBoard = <<<<0>>>>
    /\ callerBoard = 1
    /\ side = 1 /\ duration = 0 /\ maxDepth = 0 /\ maxIters = 0
    /\ elapsed = 0 /\ iter = 0
    /\ node = 0
    /\ moves = <<>> /\ preKids = 0
    /\ scratch = 0 /\ currentTurn = 0 /\ applyArg = 0
    /\ result = NoResult

\* node = highestUCBChild(parent)
UcbApply ==
    /\ pc = "ucb"
    /\ node' = highestUCBChild(nodes, 1)
    /\ pc' = "ucbDone"
    /\ UNCHANGED <<boards, rows, callerBoard, entryBoard, side, duration, maxDepth,
                   maxIters, elapsed, iter, nodes, moves, preKids, scratch,
                   currentTurn, applyArg, result>>

SpecUcb == InitUcb /\ [][UcbApply]_vars

(* ------------------------------- claims -------------------------------- *)
Root == 1
RootKids == nodes[Root].children
Stats(ns) == [k \in DOMAIN ns |-> <<ns[k].visits, ns[k].winScore>>]

\* C1: whenever Search comes to decide, at least one iteration has run in
\* full (the root has been backpropagated through once per iteration),
\* whatever the duration and maxIters.
C1_AtLeastOneIteration ==
    pc \in {"decide", "done"} => iter >= 1 /\ nodes[Root].visits >= iter

C1_Witness ==
    /\ pc = "decide"
    /\ duration < 0
    /\ iter = 1
    /\ nodes[Root].visits >= 1

\* C2: the move Search returns is the move of the root child of maximum
\* visits, and of the first such child in the root's children list.
C2_MostVisitedFirst ==
    pc = "done" =>
        \E i \in DOMAIN RootKids :
            /\ result.move = nodes[RootKids[i]].move
            /\ \A j \in DOMAIN RootKids :
                  nodes[RootKids[j]].visits <= nodes[RootKids[i]].visits
            /\ \A j \in 1 .. i - 1 :
                  nodes[RootKids[j]].visits < nodes[RootKids[i]].visits

C2_Witness ==
    /\ pc = "done"
    /\ iter >= 2
    /\ Len(RootKids) >= 2
    /\ nodes[RootKids[1]].visits = nodes[RootKids[2]].visits
    /\ result.move = nodes[RootKids[1]].move

\* C3: a step in which ApplyMove reports an error (in expand or in the
\* rollout) ends the Search call in a panic, without a move, and changes no
\* node's visits or winScore (the child just attached has none); nothing
\* changes afterwards.
C3_ErrorAborts ==
    /\ [][(pc \in {"expandLoop", "rolloutLoop"} /\ pc' = "failed") =>
             /\ result'.kind = "panic"
             /\ \A k \in DOMAIN nodes : Stats(nodes')[k] = Stats(nodes)[k]
             /\ \A k \in DOMAIN nodes' \ DOMAIN nodes : Stats(nodes')[k] = <<0, 0>>]_vars
    /\ [][pc = "failed" => UNCHANGED <<pc, nodes, result>>]_vars

C3_Witness ==
    /\ pc = "failed"
    /\ applyArg # 0
    /\ Len(nodes) >= 3
    /\ nodes[Root].visits >= 1
    /\ nodes[Len(nodes)].visits = 0

\* C4: deciding with a root that has no children is a panic, never a move;
\* a Search that returned a move had a root with children.
C4_NoChildrenIsFatal ==
    /\ [][(pc = "decide" /\ Len(RootKids) = 0) =>
             (pc' = "failed" /\ result'.kind = "panic")]_vars
    /\ [](pc = "done" => Len(RootKids) > 0 /\ result.kind = "move")

C4_Witness ==
    /\ pc = "failed"
    /\ iter >= 1
    /\ nodes[Root].visits = iter
    /\ Len(RootKids) = 0
    /\ result.kind = "panic"

\* C5: every board handed to ApplyMove shares no memory with the caller's
\* board, and the caller's board keeps the value it had at entry.
C5_CallerBoardUntouched ==
    pc # "idle" =>
        /\ BoardVal(boards, rows, callerBoard) = entryBoard
        /\ applyArg # 0 => ~Aliased(boards, applyArg, callerBoard)

C5_Witness ==
    /\ pc = "done"
    /\ \E k \in DOMAIN nodes :
          /\ nodes[k].depth = 2
          /\ BoardVal(boards, rows, nodes[k].board) # entryBoard

\* C6: the root's board is a snapshot taken at entry: it keeps the value the
\* caller's board had when Search was entered, whatever the caller stores
\* into its board afterwards, and so does what the Expander is given.
C6_RootIsSnapshot ==
    pc \notin {"idle", "ucb", "ucbDone"} =>
        BoardVal(boards, rows, nodes[Root].board) = entryBoard

\* C7: no two nodes' boards share memory (the nodes hold as many outer arrays
\* and as many rows as that takes), and every child's board holds its
\* parent's board with at most the child's own move applied: neither the
\* ApplyMove on a later sibling's board nor the moves of a rollout show in it.
C7_BoardsNeverAlias ==
    /\ LET held == {nodes[k].board : k \in DOMAIN nodes}
           cells == UNION {{boards[b][r] : r \in DOMAIN boards[b]} : b \in held}
       IN  /\ Cardinality(held) = Len(nodes)
           /\ Cardinality(cells) = Len(nodes) * Len(boards[callerBoard])
    /\ \A k \in DOMAIN nodes :
          nodes[k].parent # 0 =>
             LET own == BoardVal(boards, rows, nodes[k].board)
                 par == BoardVal(boards, rows, nodes[nodes[k].parent].board)
                 m == nodes[k].move
             IN  /\ par[m.i][m.j] = 0
                 /\ own \in {par, [par EXCEPT ![m.i][m.j] = nodes[k].side]}

C7_Witness ==
    \E a, b \in DOMAIN nodes :
        /\ a # b
        /\ nodes[a].parent = nodes[b].parent
        /\ nodes[a].parent # 0
        /\ BoardVal(boards, rows, nodes[a].board)
              # BoardVal(boards, rows, nodes[nodes[a].parent].board)
        /\ BoardVal(boards, rows, nodes[a].board) # BoardVal(boards, rows, nodes[b].board)

\* C8 as stated: expand applied to a node that has children, or to a
\* terminal node, changes neither a children list nor a statistic.
ExpandPcs == {"expand", "expandLoop", "uexpand", "uexpandLoop"}

C8_ExpandIdempotent ==
    [][(/\ pc \in ExpandPcs
        /\ \/ nodes[node].gameOver
           \/ pc \in {"expand", "uexpand"} /\ Len(nodes[node].children) > 0
           \/ pc \in {"expandLoop", "uexpandLoop"} /\ preKids > 0)
       => nodes' = nodes]_vars

\* C8 as amended: expand applied to a terminal node changes nothing of the
\* tree; expand applied to a node that has children attaches one more child
\* per move of the Expander.
C8_ExpandTerminalNoOp ==
    /\ [][(pc \in ExpandPcs /\ nodes[node].gameOver) =>
             (nodes' = nodes /\ boards' = boards /\ rows' = rows)]_vars
    /\ [][(pc = "uexpandLoop" /\ preKids > 0 /\ pc' # "failed") =>
             Len(nodes'[node].children) = Len(nodes[node].children) + 1]_vars

C8_Witness ==
    /\ pc = "stop"
    /\ nodes[node].gameOver
    /\ \E i \in 1 .. MaxCells : BoardVal(boards, rows, nodes[node].board)[i][1] = 0

\* C9: when some child has no visits, highestUCBChild returns a child
\* without visits.
C9_ZeroVisitFirst ==
    pc = "ucbDone" =>
        ((\E c \in DOMAIN RootKids : nodes[RootKids[c]].visits = 0)
            => nodes[node].visits = 0)

C9_Witness ==
    /\ pc = "ucbDone"
    /\ Len(RootKids) >= 3
    /\ nodes[Root].visits > 0
    /\ nodes[RootKids[1]].visits > 0 /\ nodes[RootKids[1]].winScore = 1
    /\ nodes[RootKids[2]].visits > 0
    /\ nodes[RootKids[3]].visits = 0 /\ nodes[RootKids[3]].winScore = -1
    /\ node = RootKids[3]

\* C10: an iteration starts only if it is the first or the clock reads less
\* than duration, and only if maxIters <= 0 or fewer than maxIters have
\* run; so iter never passes a positive maxIters, and with maxIters <= 0 the
\* loop is left only when the clock has reached duration.
C10_LoopBudget ==
    /\ [][iter' = iter + 1 =>
             /\ iter = 0 \/ elapsed' < duration
             /\ maxIters <= 0 \/ iter < maxIters]_vars
    /\ [](maxIters > 0 => iter <= maxIters)
    /\ [][(pc = "loop" /\ pc' = "decide" /\ maxIters <= 0) =>
             (iter >= 1 /\ elapsed' >= duration)]_vars

C10_Witness ==
    /\ pc = "done"
    /\ maxIters = 2
    /\ iter = maxIters
    /\ elapsed < duration

\* the node has an empty cell: the Expander has a move for it
HasEmptyCell(k) ==
    ExpandMoves(BoardVal(boards, rows, nodes[k].board), NextPlayer(nodes[k].side)) # <<>>

\* C11: with maxDepth > 0, expand leaves a node of depth >= maxDepth as it
\* is, and no node of the tree is deeper than maxDepth; with maxDepth <= 0
\* every non-terminal node that has a move is expanded, whatever its depth.
C11_DepthLimit ==
    /\ [](pc # "idle" /\ maxDepth > 0 => \A k \in DOMAIN nodes : nodes[k].depth <= maxDepth)
    /\ [][(pc = "expand" /\ maxDepth > 0 /\ nodes[node].depth >= maxDepth) =>
             (nodes' = nodes /\ boards' = boards /\ rows' = rows /\ pc' = "first")]_vars
    /\ [][(pc = "expand" /\ maxDepth <= 0 /\ ~nodes[node].gameOver /\ HasEmptyCell(node)) =>
             pc' = "expandLoop"]_vars

C11_Witness ==
    /\ pc = "first"
    /\ maxDepth = 1
    /\ nodes[node].depth = 1
    /\ ~nodes[node].gameOver
    /\ HasEmptyCell(node)
    /\ Len(nodes[node].children) = 0

\* the nodes from k up to the root, by the parent links
RECURSIVE PathUp(_, _)
PathUp(ns, k) == IF k = 0 THEN {} ELSE {k} \cup PathUp(ns, ns[k].parent)

\* C13: a backpropagation pass from the node adds 1 to the visits of every
\* node of the parent path up to the root, adds 1 to its winScore if the
\* node's winner is the path node's side, takes 1 off if the winner is the
\* other side, leaves winScore alone for winner 0, and changes no other node.
C13_BackpropagatePass ==
    [][pc = "backprop" =>
          \A k \in DOMAIN nodes :
             LET w == nodes[node].winner
                 d == IF w = 0 THEN 0 ELSE IF w = nodes[k].side THEN 1 ELSE -1
             IN  IF k \in PathUp(nodes, node)
                 THEN nodes'[k] = [nodes[k] EXCEPT !.visits = @ + 1, !.winScore = @ + d]
                 ELSE nodes'[k] = nodes[k]]_vars

C13_Witness ==
    /\ pc = "loop"
    /\ iter = 2
    /\ node # 0
    /\ nodes[node].depth = 2
    /\ nodes[node].winner # 0
    /\ Len(nodes) > Cardinality(PathUp(nodes, node))
    /\ nodes[node].visits = 2
    /\ nodes[Root].visits = Len(nodes) - 1 + iter

\* C14: every pass of expand's loop that creates a child with move m adds 1
\* to the visits of every node from the child up to the root and changes its
\* winScore by +m.Eval() if the node's side is the child's side and by
\* -m.Eval() otherwise, and touches no other node's statistics; when expand
\* is over and the rollout has not begun, every child just created has been
\* counted once.
C14_ExpandSeeds ==
    /\ [][(pc = "expandLoop" /\ pc' # "failed") =>
             LET c == Len(nodes')
                 e == nodes'[c].move.eval
             IN  /\ c = Len(nodes) + 1
                 /\ nodes'[c].parent = node
                 /\ nodes'[c].move = Head(moves)
                 /\ Stats(nodes')[c] = <<1, e>>
                 /\ \A k \in DOMAIN nodes :
                       Stats(nodes')[k] =
                          IF k \in PathUp(nodes', c)
                          THEN <<nodes[k].visits + 1,
                                 IF nodes[k].side = nodes'[c].side
                                 THEN nodes[k].winScore + e
                                 ELSE nodes[k].winScore - e>>
                          ELSE Stats(nodes)[k]]_vars
    /\ [](pc = "first" =>
             \A i \in DOMAIN nodes[node].children :
                Stats(nodes)[nodes[node].children[i]]
                   = <<1, nodes[nodes[node].children[i]].move.eval>>)

C14_Witness ==
    /\ pc = "first"
    /\ nodes[node].depth = 1
    /\ Len(nodes[node].children) > 0
    /\ nodes[nodes[node].children[1]].move.eval # 0
    /\ nodes[nodes[node].children[1]].winScore = nodes[nodes[node].children[1]].move.eval
    /\ nodes[Root].visits = Len(nodes)

\* the last rollout ended because RandomMove had no move: it had a private
\* board and its last pass handed nothing to ApplyMove
RolloutRanOut == pc = "backprop" /\ scratch # 0 /\ applyArg = 0

\* C15: a rollout that ends because RandomMove has no move counts as a draw:
\* the node's winner is 0 when it ends and the backpropagation pass that
\* follows changes no node's winScore, also for a node that an earlier
\* iteration rolled out.
C15_NoMoveIsDraw ==
    [][RolloutRanOut =>
          /\ nodes[node].winner = 0
          /\ \A k \in DOMAIN nodes : nodes'[k].winScore = nodes[k].winScore]_vars

\* C16: a node whose gameOver flag is set or whose winner has been set to a
\* player keeps its gameOver flag and its winner in every later step.
C16_WinnerImmutable ==
    [][\A k \in DOMAIN nodes :
          (nodes[k].gameOver \/ nodes[k].winner # 0) =>
             /\ nodes'[k].gameOver = nodes[k].gameOver
             /\ nodes'[k].winner = nodes[k].winner]_vars

\* C17: while Search runs, a node that has children has visits >= 1, and
\* every evaluation of the UCB formula during selection is for a child with
\* visits >= 1 under a parent with visits >= 1: no division by zero and no
\* logarithm of zero.
C17_UcbDefined ==
    /\ pc \notin {"idle", "failed"} =>
          \A k \in DOMAIN nodes : Len(nodes[k].children) > 0 => nodes[k].visits >= 1
    /\ pc = "select" /\ ~nodes[Root].gameOver =>
          \A c \in DescendCalls(nodes, Root) : c[1] >= 1 /\ c[2] >= 1

C17_Witness ==
    /\ pc = "select"
    /\ Len(RootKids) >= 2
    /\ Len(nodes[highestUCBChild(nodes, Root)].children) > 0
    /\ \E c \in DescendCalls(nodes, Root) : c[1] = 1
    /\ \E c \in DescendCalls(nodes, Root) : c[2] = nodes[Root].visits /\ c[1] > 1

\* the states of spec section 5
Idle == pc = "idle"
Iterating == pc \in {"loop", "select", "expand", "expandLoop", "first", "rollout",
                     "rolloutLoop", "backprop", "decide"}
Done == pc \in {"done", "failed"}

\* C18: a Search call goes from Idle to Iterating to Done and not back; the
\* loop is left at the first clock reading that is not under duration and
\* when a positive maxIters has been reached; nothing moves after Done; and
\* every call that was made comes to Done, with a move or a failure.
C18_ReachesDone ==
    /\ [](Idle \/ Iterating \/ Done)
    /\ [][Idle => (Idle' \/ Iterating')]_vars
    /\ [][Iterating => (Iterating' \/ Done')]_vars
    /\ [][Done => UNCHANGED <<pc, iter, nodes, result>>]_vars
    /\ [][(pc = "loop" /\ iter >= 1 /\ elapsed' >= duration) => pc' = "decide"]_vars
    /\ [][(pc = "loop" /\ maxIters > 0 /\ iter >= maxIters) => pc' = "decide"]_vars
    /\ (Iterating ~> Done)
    /\ [](Done => result.kind \in {"move", "panic"})

C18_Witness ==
    /\ pc = "done"
    /\ iter = MaxSteps
    /\ maxIters =< 0
    /\ duration > 0
    /\ elapsed >= duration
    /\ result.kind = "move"

\* the sum of the visits of the children of node k from index i on
RECURSIVE KidVisits(_, _, _)
KidVisits(ns, k, i) ==
    IF i > Len(ns[k].children)
    THEN 0
    ELSE ns[ns[k].children[i]].visits + KidVisits(ns, k, i + 1)

\* C19: the visit count Search returns is the root's, and it is the number
\* of iterations run plus the number of nodes other than the root; between
\* two iterations the same holds of the root, every node has at least as
\* many visits as its children together, and every node but the root has
\* been visited.
C19_VisitAccounting ==
    /\ pc = "done" =>
          /\ result.visits = nodes[Root].visits
          /\ result.visits = iter + Len(nodes) - 1
    /\ pc \in {"loop", "decide"} /\ iter >= 1 =>
          /\ nodes[Root].visits = iter + Len(nodes) - 1
          /\ \A k \in DOMAIN nodes :
                /\ nodes[k].visits >= KidVisits(nodes, k, 1)
                /\ k # Root => nodes[k].visits >= 1

C19_Witness ==
    /\ pc = "done"
    /\ iter = MaxSteps
    /\ Len(nodes) >= MaxCells + 2
    /\ result.visits = iter + Len(nodes) - 1
    /\ \E k \in DOMAIN nodes :
          /\ k # Root
          /\ Len(nodes[k].children) > 0
          /\ nodes[k].visits > KidVisits(nodes, k, 1) + 1

\* C20: in a Search call expand is entered only for a node that has no
\* children, and a children list changes only by expand appending the child
\* it has just created to the list of that node: once expand has left a
\* node with children, its list stays as it is.
C20_ExpandOnlyChildless ==
    /\ [](pc = "expand" => Len(nodes[node].children) = 0)
    /\ [](pc = "expandLoop" => preKids = 0)
    /\ [][\A k \in DOMAIN nodes :
             nodes'[k].children # nodes[k].children =>
                /\ pc = "expandLoop"
                /\ k = node
                /\ preKids = 0
                /\ nodes'[k].children = Append(nodes[k].children, Len(nodes) + 1)]_vars

C20_Witness ==
    /\ pc = "expand"
    /\ iter = 3
    /\ nodes[node].depth = 2
    /\ Len(nodes[nodes[node].parent].children) > 0
    /\ Len(RootKids) >= 2

====
